---- MODULE Spec2Model ----
(***************************************************************************)
(* Model of the idea-submission backend: src/src/backend/service.py (form  *)
(* schema, extractor, validator, merge) and src/src/backend/api_run.py     *)
(* (the session store and the three HTTP handlers).                        *)
(***************************************************************************)
EXTENDS Integers, Sequences, FiniteSets, TLC

VARIABLES
    sessions,   \* api_run.py: the module-level dict  sessions
    files,      \* the files temp_audio/<session_id>.mp3
    reqs,       \* audio requests suspended at  await audio.read()
    resp,       \* outcome of the handler that finished last
    call        \* harness of the pure-function specifications

vars == <<sessions, files, reqs, resp, call>>

(***************************************************************************)
(* Values.  A JSON / Python value is a record [t, s]: t is its type and s  *)
(* the characters of str(value).  Only None, strings and one non-string    *)
(* kind (a JSON array) are needed.                                         *)
(***************************************************************************)
None == [t |-> "null", s |-> <<"N", "o", "n", "e">>]

Txt(n, c) == [t |-> "str", s |-> [i \in 1..n |-> c]]

\* json.loads of  ["x"] : a list; str() of it is  ['x']
ListV == [t |-> "list", s |-> <<"[", "'", "x", "'", "]">>]

\* len(str(v))
StrLen(v) == Len(v.s)

IsStr(v) == v.t = "str"

\* The freshness threshold of _update_fields.
Threshold == 20

\* String lengths above the threshold that the inputs range over.
MaxOver == 1

Lens == {0, 2, Threshold - 1} \cup (Threshold .. Threshold + MaxOver)

Chars == {"a", "b"}

Strings == {Txt(n, c) : n \in Lens, c \in Chars}

\* What a field of a parsed extraction can hold.
Values == {None, ListV} \cup Strings

(***************************************************************************)
(* Config.FORM_SCHEMA, in declaration order.                               *)
(***************************************************************************)
SchemaFields ==
    << "idea_title", "solution_details", "benefits_and_impact",
       "impact_measures", "scalability", "target_audience",
       "relevant_entities", "feasibility_and_implementation", "attachments" >>

FORM_SCHEMA ==
    [ idea_title |->
        [description |-> "A concise, attention-grabbing title for the idea",
         required |-> TRUE, max_length |-> 100],
      solution_details |->
        [description |-> "Detailed explanation of the proposed solution",
         required |-> TRUE, min_length |-> 50],
      benefits_and_impact |->
        [description |-> "The potential benefits and impact of implementing this idea",
         required |-> TRUE, min_length |-> 30],
      impact_measures |->
        [description |-> "How the impact will be measured (KPIs, metrics)",
         required |-> TRUE, min_length |-> 20],
      scalability |->
        [description |-> "How the solution can be scaled (geographically, demographically)",
         required |-> FALSE],
      target_audience |->
        [description |-> "Primary and secondary audiences who will benefit",
         required |-> TRUE],
      relevant_entities |->
        [description |-> "Other organizations/departments that would need to be involved",
         required |-> FALSE],
      feasibility_and_implementation |->
        [description |-> "Practical considerations for implementation (timeline, resources)",
         required |-> TRUE, min_length |-> 40],
      attachments |->
        [description |-> "Any supporting documents or references",
         required |-> FALSE, type |-> "file"] ]

Fields == {SchemaFields[i] : i \in 1..Len(SchemaFields)}

Required == {f \in Fields : FORM_SCHEMA[f].required}

\* A key the schema does not declare, as an extraction may carry one.
ExtraKey == "budget"

\* A Python dict is a function from its keys; {} is the empty function.
EmptyDict == <<>>

AllNone == [f \in Fields |-> None]

(***************************************************************************)
(* IdeaFormProcessor.forward.  The language model's answer is a record     *)
(* [fence, doc, obj]: fence is how the text is wrapped, doc what kind of   *)
(* document the text inside is, obj the mapping when doc = "object".       *)
(***************************************************************************)
Fences == {"none", "plain", "json"}

Docs == {"invalid", "object", "array", "null"}

\* extraction.form_fields.strip('```').strip(): what json.loads is given.
\* strip('```') removes backquotes only, so the language tag of a
\* ```json fence stays in front of the document.
Stripped(out) ==
    IF out.fence = "json" THEN [tag |-> TRUE, doc |-> out.doc, obj |-> out.obj]
    ELSE [tag |-> FALSE, doc |-> out.doc, obj |-> out.obj]

\* json.loads: raises JSONDecodeError on text that is not one JSON document.
JsonLoads(text) ==
    IF text.tag \/ text.doc = "invalid"
    THEN [raised |-> "JSONDecodeError", kind |-> "none", value |-> EmptyDict]
    ELSE [raised |-> "none", kind |-> text.doc,
          value |-> IF text.doc = "object" THEN text.obj ELSE EmptyDict]

\* raw_fields.get(field, None)
DictGet(d, k) == IF k \in DOMAIN d THEN d[k] ELSE None

\* forward without the schema comprehension: returns what was parsed.
ForwardUnnormalized(out) ==
    LET raw == JsonLoads(Stripped(out)) IN
    IF raw.raised = "JSONDecodeError" THEN [raised |-> "none", value |-> AllNone]
    ELSE IF raw.kind # "object" THEN [raised |-> "AttributeError", value |-> EmptyDict]
    ELSE [raised |-> "none", value |-> raw.value]

\* Lines 96-105: the result, or the exception that leaves forward.
Forward(out) ==
    LET raw == JsonLoads(Stripped(out)) IN
    IF raw.raised = "JSONDecodeError"
    THEN [raised |-> "none", value |-> AllNone]
    ELSE IF raw.kind # "object"
    THEN [raised |-> "AttributeError", value |-> EmptyDict]
    ELSE [raised |-> "none", value |-> [f \in Fields |-> DictGet(raw.value, f)]]

(***************************************************************************)
(* FormValidator.validate_fields.                                          *)
(***************************************************************************)
MissingEntry(f) ==
    [field |-> f,
     message |-> "Missing required field: " \o FORM_SCHEMA[f].description]

\* The entries the loop body appends for one schema field.
MissingFor(f, extracted) ==
    LET config == FORM_SCHEMA[f] IN
    (IF config.required /\ f \in DOMAIN extracted /\ extracted[f] = None
     THEN <<MissingEntry(f)>> ELSE <<>>)
    \o
    (IF config.required /\ f \notin DOMAIN extracted
     THEN <<MissingEntry(f)>> ELSE <<>>)

RECURSIVE MissingUpTo(_, _)
MissingUpTo(n, extracted) ==
    IF n = 0 THEN <<>>
    ELSE MissingUpTo(n - 1, extracted) \o MissingFor(SchemaFields[n], extracted)

\* validate_fields that reports every absent field, required or not.
ValidateIgnoringRequired(extracted) ==
    [missing_fields |->
        SelectSeq([i \in 1..Len(SchemaFields) |-> MissingEntry(SchemaFields[i])],
                  LAMBDA e : DictGet(extracted, e.field) = None),
     quality_issues |-> <<>>,
     suggestions |-> <<>>]

\* validate_fields that also reports values shorter than min_length.
ValidateWithLengths(extracted) ==
    [missing_fields |-> MissingUpTo(Len(SchemaFields), extracted),
     quality_issues |->
        SelectSeq([i \in 1..Len(SchemaFields) |->
                      [field |-> SchemaFields[i], message |-> "too short"]],
                  LAMBDA e : /\ "min_length" \in DOMAIN FORM_SCHEMA[e.field]
                             /\ DictGet(extracted, e.field) # None
                             /\ StrLen(DictGet(extracted, e.field))
                                   < FORM_SCHEMA[e.field].min_length),
     suggestions |-> <<>>]

validate_fields(extracted) ==
    [missing_fields |-> MissingUpTo(Len(SchemaFields), extracted),
     quality_issues |-> <<>>,
     suggestions |-> <<>>]

(***************************************************************************)
(* ProgressiveFormValidator.validate_fields.                               *)
(***************************************************************************)
\* results  as line 126-130 initialises it.
NoVerdictYet == [missing_fields |-> <<>>, quality_issues |-> <<>>, suggestions |-> <<>>]

\* The schema fields that declare a min_length.
Sized == {f \in Fields : "min_length" \in DOMAIN FORM_SCHEMA[f]}

\* len(value): defined for a string and for a list (the list ["x"] has one
\* element); len(None) raises TypeError.
HasLen(v) == v.t \in {"str", "list"}

PyLen(v) == IF v.t = "list" THEN 1 ELSE Len(v.s)

Digits == {"7"}

\* any(c.isdigit() for c in value): over the characters of a string, over
\* the elements of a list; None is not iterable.
AnyDigit(v) == v.t = "str" /\ \E i \in 1..Len(v.s) : v.s[i] \in Digits

\* The message is kept as its parts: the text, the number, the field.
LengthIssue(f) ==
    [field |-> f,
     message |-> <<"Please provide at least", FORM_SCHEMA[f].min_length,
                   "characters for", f>>]

NumbersIssue ==
    [field |-> "impact_measures",
     message |-> <<"Please include specific numbers or metrics">>]

\* Lines 241-246 for one schema field whose value has a length.
LengthIssueFor(f, extracted) ==
    IF f \in DOMAIN extracted /\ f \in Sized
    THEN IF PyLen(extracted[f]) < FORM_SCHEMA[f].min_length
         THEN <<LengthIssue(f)>> ELSE <<>>
    ELSE <<>>

RECURSIVE LengthIssuesUpTo(_, _)
LengthIssuesUpTo(n, extracted) ==
    IF n = 0 THEN <<>>
    ELSE LengthIssuesUpTo(n - 1, extracted)
            \o LengthIssueFor(SchemaFields[n], extracted)

\* The validator with  <=  in place of  <  at line 242.
ProgressiveAtMost(extracted, iteration) ==
    LET results == validate_fields(extracted)
        short == SelectSeq(SchemaFields,
                    LAMBDA f : /\ f \in DOMAIN extracted /\ f \in Sized
                               /\ PyLen(extracted[f]) <= FORM_SCHEMA[f].min_length)
        lengths == IF iteration > 0
                   THEN [i \in 1..Len(short) |-> LengthIssue(short[i])] ELSE <<>>
        numbers == IF /\ iteration > 1 /\ "impact_measures" \in DOMAIN extracted
                      /\ ~AnyDigit(extracted["impact_measures"])
                   THEN <<NumbersIssue>> ELSE <<>> IN
    IF iteration > 0 /\ \E f \in Sized \cap DOMAIN extracted : ~HasLen(extracted[f])
    THEN [raised |-> "TypeError", value |-> NoVerdictYet]
    ELSE [raised |-> "none",
          value |-> [results EXCEPT !.quality_issues = lengths \o numbers]]

\* Lines 234-256: the verdict, or the TypeError of len(None) at line 242 or
\* of iterating None at line 250.
ProgressiveFormValidator(extracted, iteration) ==
    LET results == validate_fields(extracted)
        lengths == IF iteration > 0
                   THEN LengthIssuesUpTo(Len(SchemaFields), extracted) ELSE <<>>
        numbers == IF /\ iteration > 1 /\ "impact_measures" \in DOMAIN extracted
                      /\ ~AnyDigit(extracted["impact_measures"])
                   THEN <<NumbersIssue>> ELSE <<>> IN
    IF iteration > 0 /\ \E f \in Sized \cap DOMAIN extracted : ~HasLen(extracted[f])
    THEN [raised |-> "TypeError", value |-> NoVerdictYet]
    ELSE IF /\ iteration > 1 /\ "impact_measures" \in DOMAIN extracted
            /\ ~HasLen(extracted["impact_measures"])
    THEN [raised |-> "TypeError", value |-> NoVerdictYet]
    ELSE [raised |-> "none",
          value |-> [results EXCEPT !.quality_issues = lengths \o numbers]]

(***************************************************************************)
(* IterativeIdeaSubmissionAssistant._update_fields, after the extraction:  *)
(* the merge of the stored fields with the new extraction.                 *)
(***************************************************************************)
\* The condition of lines 204-208.
Adopts(f, current_fields, new_extraction) ==
    /\ f \in DOMAIN new_extraction
    /\ \/ f \notin DOMAIN current_fields
       \/ DictGet(current_fields, f) = None
       \/ StrLen(DictGet(current_fields, f)) < Threshold

\* _update_fields that starts from an empty dict instead of a copy.
UpdateFieldsNoCopy(current_fields, new_extraction) ==
    LET adopted == {f \in Fields : Adopts(f, current_fields, new_extraction)} IN
    [f \in adopted |-> new_extraction[f]]

\* _update_fields that adopts the new value whatever the current one is.
UpdateFieldsAlways(current_fields, new_extraction) ==
    LET adopted == {f \in Fields : f \in DOMAIN new_extraction} IN
    [f \in DOMAIN current_fields \cup adopted |->
        IF f \in adopted THEN new_extraction[f] ELSE current_fields[f]]

\* _update_fields that never adopts.
UpdateFieldsNever(current_fields, new_extraction) == current_fields

update_fields(current_fields, new_extraction) ==
    LET adopted == {f \in Fields : Adopts(f, current_fields, new_extraction)} IN
    [f \in DOMAIN current_fields \cup adopted |->
        IF f \in adopted THEN new_extraction[f] ELSE current_fields[f]]

(***************************************************************************)
(* The extraction collaborator and run_interactive_loop.  A call of the    *)
(* language model either fails or answers with an output.                  *)
(***************************************************************************)
LMFailure == [fail |-> TRUE, out |-> [fence |-> "none", doc |-> "invalid", obj |-> EmptyDict]]

LMAnswer(out) == [fail |-> FALSE, out |-> out]

\* self.form_processor(idea_description=...): the call of the model, then
\* forward's parsing.  An exception of the call propagates.
Extract(lm) ==
    IF lm.fail THEN [raised |-> "LMError", value |-> EmptyDict]
    ELSE Forward(lm.out)

run_interactive_loop(lm) ==
    LET e == Extract(lm)
        validation == validate_fields(e.value) IN
    IF e.raised # "none"
    THEN [raised |-> e.raised, status |-> "none", form_data |-> EmptyDict,
          validation |-> validate_fields(AllNone)]
    ELSE [raised |-> "none",
          status |-> IF validation.missing_fields = <<>>
                     THEN "complete" ELSE "incomplete",
          form_data |-> e.value,
          validation |-> validation]

(***************************************************************************)
(* api_run.py: the response models.                                        *)
(***************************************************************************)
\* The fields FormFieldResponse declares; it ignores any other key.
ModelFields == Fields \ {"attachments"}

\* FormFieldResponse(**fields): each declared field is Optional[str]; a
\* value of another type fails validation.
FormFieldResponse(fields) ==
    IF \E f \in ModelFields \cap DOMAIN fields :
            ~(fields[f] = None \/ IsStr(fields[f]))
    THEN [raised |-> "ValidationError", value |-> EmptyDict]
    ELSE [raised |-> "none", value |-> [f \in ModelFields |-> DictGet(fields, f)]]

\* [f["field"] for f in validation["missing_fields"]]
FieldNames(entries) == [i \in 1..Len(entries) |-> entries[i].field]

(***************************************************************************)
(* api_run.py: the handlers' state.                                        *)
(*   sessions  the dict  sessions : session id -> {current_fields, history}*)
(*   files     path temp_audio/<id>.mp3 -> [content, writers]: the bytes   *)
(*             of the file and the requests holding it open for writing    *)
(*   reqs      the audio requests suspended at  await audio.read() .  A    *)
(*             clarification keeps the dict  session  it read before the   *)
(*             await: when start_submission has since put a new dict in    *)
(*             the store, the request is detached and holds the old one,   *)
(*             shared with the requests of its group.                      *)
(*   resp      what the handler that finished last answered and computed   *)
(***************************************************************************)
Requests == {"r1", "r2"}

NoSession == [current_fields |-> EmptyDict, history |-> <<>>]

IdleRequest ==
    [pc |-> "idle", op |-> "none", sid |-> "none", audio |-> "none",
     detached |-> FALSE, session |-> NoSession, group |-> {}]

NoVerdict == [missing_fields |-> <<>>, quality_issues |-> <<>>, suggestions |-> <<>>]

NoResponse ==
    [op |-> "none", sid |-> "none", code |-> 0, error |-> "none",
     status |-> "none", extracted |-> EmptyDict, verdict |-> NoVerdict,
     form_data |-> EmptyDict, missing_fields |-> <<>>]

NoCall == [op |-> "none"]

InitStore ==
    /\ sessions = EmptyDict
    /\ files = EmptyDict
    /\ reqs = [r \in Requests |-> IdleRequest]
    /\ resp = NoResponse

(***************************************************************************)
(* Field sets the pure functions are applied to: every schema key, each    *)
(* value None, a string or a list.                                         *)
(***************************************************************************)
Pattern(P, a, b) == [f \in Fields |-> IF f \in P THEN a ELSE b]

\* One field set, all others absent; or the required fields against the rest.
MergeInputs ==
    {Pattern({f}, a, None) : f \in Fields, a \in Values}
    \cup {Pattern(Required, a, b) : a \in Values, b \in Values}

ValidateInputs ==
    {Pattern(P, a, None) : P \in SUBSET Fields, a \in Values \ {None}}

\* Mappings a language model may answer with: keys missing, an undeclared
\* key, values of any type.
Keys == Fields \cup {ExtraKey}

KeySets ==
    {Fields, Keys, {}} \cup {Fields \ {f} : f \in Fields}
    \cup {{f} : f \in Fields} \cup {{f, ExtraKey} : f \in Fields}

Objects == {[k \in K |-> a] : K \in KeySets, a \in Values}

LMOutputs ==
    {[fence |-> fc, doc |-> "object", obj |-> o] : fc \in Fences, o \in Objects}
    \cup {[fence |-> fc, doc |-> d, obj |-> EmptyDict] :
            fc \in Fences, d \in Docs \ {"object"}}

(***************************************************************************)
(* SpecMerge: _update_fields' merge applied to a pair of field sets.       *)
(***************************************************************************)
InitMerge ==
    /\ InitStore
    /\ \E c \in MergeInputs, i \in MergeInputs :
          call = [op |-> "merge", current |-> c, incoming |-> i,
                  done |-> FALSE, result |-> EmptyDict]

ApplyMerge ==
    /\ call.op = "merge" /\ ~call.done
    /\ call' = [call EXCEPT !.done = TRUE,
                            !.result = update_fields(call.current, call.incoming)]
    /\ UNCHANGED <<sessions, files, reqs, resp>>

NextMerge == ApplyMerge

SpecMerge == InitMerge /\ [][NextMerge]_vars

Merged == call.op = "merge" /\ call.done

Present(v) == v # None

\* The value the merge left under key f (None when the key is gone).
MergedAt(f) == DictGet(call.result, f)

\* C1: a present current value whose string length is at least 20 is kept,
\* whatever the incoming value is.
C1_Retention ==
    Merged =>
        \A f \in Fields :
            (Present(call.current[f]) /\ StrLen(call.current[f]) >= Threshold)
                => (f \in DOMAIN call.result /\ call.result[f] = call.current[f])

C1_Witness ==
    /\ Merged
    /\ \E f \in Fields :
          /\ Present(call.current[f]) /\ StrLen(call.current[f]) >= Threshold
          /\ Present(call.incoming[f]) /\ call.incoming[f] # call.current[f]
          /\ MergedAt(f) = call.current[f]
    /\ \E f \in Fields :
          /\ Present(call.current[f]) /\ StrLen(call.current[f]) >= Threshold
          /\ call.incoming[f] = None
          /\ MergedAt(f) = call.current[f]

\* C2: a present current value shorter than 20 is kept when the incoming
\* value is absent, and replaced by the incoming value when that is present.
C2_ShortValueRule ==
    Merged =>
        \A f \in Fields :
            (Present(call.current[f]) /\ StrLen(call.current[f]) < Threshold)
                => /\ call.incoming[f] = None => MergedAt(f) = call.current[f]
                   /\ Present(call.incoming[f]) => MergedAt(f) = call.incoming[f]

\* C3: an absent current value is replaced by the incoming value, present
\* or absent.
C3_Adoption ==
    Merged =>
        \A f \in Fields :
            call.current[f] = None
                => (f \in DOMAIN call.result /\ call.result[f] = call.incoming[f])

C3_Witness ==
    /\ Merged
    /\ \E f \in Fields :
          /\ call.current[f] = None /\ Present(call.incoming[f])
          /\ MergedAt(f) = call.incoming[f]
    /\ \E f \in Fields :
          /\ call.current[f] = None /\ call.incoming[f] = None
          /\ f \in DOMAIN call.result /\ call.result[f] = None

\* C4: merging a field set with itself gives that field set.
C4_Idempotence ==
    (Merged /\ call.incoming = call.current) => call.result = call.current

C4_Witness ==
    /\ Merged /\ call.incoming = call.current
    /\ \E f \in Fields : IsStr(call.current[f]) /\ StrLen(call.current[f]) < Threshold
    /\ \E f \in Fields : IsStr(call.current[f]) /\ StrLen(call.current[f]) >= Threshold
    /\ call.result = call.current

(***************************************************************************)
(* SpecValidate: validate_fields applied to a field set.                   *)
(***************************************************************************)
InitValidate ==
    /\ InitStore
    /\ \E e \in ValidateInputs :
          call = [op |-> "validate", fields |-> e, done |-> FALSE,
                  result |-> EmptyDict]

ApplyValidate ==
    /\ call.op = "validate" /\ ~call.done
    /\ call' = [call EXCEPT !.done = TRUE, !.result = validate_fields(call.fields)]
    /\ UNCHANGED <<sessions, files, reqs, resp>>

NextValidate == ApplyValidate

SpecValidate == InitValidate /\ [][NextValidate]_vars

Validated == call.op = "validate" /\ call.done

\* The required fields that are absent in e, in declaration order.
AbsentRequired(e) ==
    SelectSeq(SchemaFields, LAMBDA f : f \in Required /\ DictGet(e, f) = None)

\* C5: missing_fields names exactly the required fields whose value is
\* absent, once each, in declaration order, with the field's description in
\* the message; quality_issues and suggestions are empty.
C5_ValidatorResult ==
    Validated =>
        /\ FieldNames(call.result.missing_fields) = AbsentRequired(call.fields)
        /\ \A i \in 1..Len(call.result.missing_fields) :
              call.result.missing_fields[i] =
                  MissingEntry(call.result.missing_fields[i].field)
        /\ call.result.quality_issues = <<>>
        /\ call.result.suggestions = <<>>

C5_Witness ==
    /\ Validated
    /\ call.fields["target_audience"] = None
    /\ call.fields["scalability"] = None
    /\ \A f \in Required \ {"target_audience"} : call.fields[f] = Txt(0, "a")
    /\ FieldNames(call.result.missing_fields) = <<"target_audience">>

(***************************************************************************)
(* SpecExtract: forward's parsing and normalization applied to an answer   *)
(* of the language model.                                                  *)
(***************************************************************************)
InitExtract ==
    /\ InitStore
    /\ \E o \in LMOutputs :
          call = [op |-> "extract", output |-> o, done |-> FALSE,
                  result |-> [raised |-> "none", value |-> EmptyDict]]

ApplyForward ==
    /\ call.op = "extract" /\ ~call.done
    /\ call' = [call EXCEPT !.done = TRUE, !.result = Forward(call.output)]
    /\ UNCHANGED <<sessions, files, reqs, resp>>

NextExtract == ApplyForward

SpecExtract == InitExtract /\ [][NextExtract]_vars

Extracted == call.op = "extract" /\ call.done

\* The answer is not a JSON document, or is one that is not an object.
Unparsable(out) ==
    LET text == Stripped(out) IN
    text.tag \/ text.doc \in {"invalid", "array", "null"}

\* C9: an answer that cannot be parsed into a field mapping gives the
\* all-absent field set, and no exception leaves the extractor.
C9_MalformedDegrades ==
    (Extracted /\ Unparsable(call.output))
        => (call.result.raised = "none" /\ call.result.value = AllNone)

(***************************************************************************)
(* SpecProgressive: ProgressiveFormValidator.validate_fields applied to a  *)
(* field set and an iteration number.                                      *)
(***************************************************************************)
\* The largest iteration number the validator is called with.
MaxIteration == 3

\* A string of n characters that ends in a digit.
Mixed(n) == [t |-> "str", s |-> [i \in 1..n |-> IF i = n THEN "7" ELSE "a"]]

\* Values of a field that declares min_length: absent, a list, and strings
\* of 5 characters, one less than min_length, and min_length.
SizedValues(f) ==
    LET m == FORM_SCHEMA[f].min_length IN
    {None, ListV, Txt(5, "a"), Txt(m - 1, "a"), Txt(m, "a")}
    \cup (IF f = "impact_measures"
          THEN {Txt(5, "7"), Mixed(m - 1), Mixed(m)} ELSE {})

\* The fields without min_length are all present or all absent.
SizedChoices ==
    {c \in [Sized -> UNION {SizedValues(f) : f \in Sized}] :
        \A f \in Sized : c[f] \in SizedValues(f)}

ProgressiveInputs ==
    {[f \in Fields |-> IF f \in Sized THEN sized[f] ELSE rest] :
        sized \in SizedChoices, rest \in {None, Txt(5, "a")}}

InitProgressive ==
    /\ InitStore
    /\ \E e \in ProgressiveInputs, n \in 0..MaxIteration :
          call = [op |-> "progressive", fields |-> e, iteration |-> n,
                  done |-> FALSE,
                  result |-> [raised |-> "none", value |-> NoVerdictYet]]

ApplyProgressive ==
    /\ call.op = "progressive" /\ ~call.done
    /\ call' = [call EXCEPT !.done = TRUE,
                   !.result = ProgressiveFormValidator(call.fields, call.iteration)]
    /\ UNCHANGED <<sessions, files, reqs, resp>>

NextProgressive == ApplyProgressive

SpecProgressive == InitProgressive /\ [][NextProgressive]_vars

Progressed == call.op = "progressive" /\ call.done

AllPresent(e) == \A f \in Fields : Present(DictGet(e, f))

\* The sized fields whose value is shorter than min_length, in declaration
\* order.
TooShort(e) ==
    SelectSeq(SchemaFields,
              LAMBDA f : f \in Sized /\ StrLen(e[f]) < FORM_SCHEMA[f].min_length)

\* The quality issues other than the numbers issue.
LengthIssues(q) == SelectSeq(q, LAMBDA i : i # NumbersIssue)

\* C14: on a field set with every field present the validator returns; at
\* iteration 0 its verdict is the base validator's; at iteration 1 and
\* later the length issues name exactly the sized fields whose value is
\* shorter than min_length, once each; missing_fields is the base
\* validator's at every iteration.
C14_LengthEscalation ==
    (Progressed /\ AllPresent(call.fields))
        => /\ call.result.raised = "none"
           /\ call.iteration = 0
                 => call.result.value = validate_fields(call.fields)
           /\ call.iteration >= 1
                 => /\ FieldNames(LengthIssues(call.result.value.quality_issues))
                          = TooShort(call.fields)
                    /\ \A i \in 1..Len(LengthIssues(call.result.value.quality_issues)) :
                          LengthIssues(call.result.value.quality_issues)[i].message[2]
                              = FORM_SCHEMA[LengthIssues(call.result.value.quality_issues)[i].field].min_length
           /\ call.result.value.missing_fields
                 = validate_fields(call.fields).missing_fields

\* Iteration 1: a value of 5 characters and one a character short are
\* reported, values of exactly min_length are not.
C14_Witness ==
    /\ Progressed /\ AllPresent(call.fields)
    /\ call.iteration = 1
    /\ call.fields["solution_details"] = Txt(50, "a")
    /\ call.fields["benefits_and_impact"] = Txt(29, "a")
    /\ call.fields["impact_measures"] = Txt(5, "a")
    /\ call.fields["feasibility_and_implementation"] = Txt(40, "a")
    /\ FieldNames(call.result.value.quality_issues)
          = <<"benefits_and_impact", "impact_measures">>

\* The value has a digit among the characters of str(value).
ContainsDigit(v) == \E i \in 1..Len(v.s) : v.s[i] \in {"7"}

\* The call returned a verdict whose quality issues include the issue.
Reported(issue) ==
    /\ call.result.raised = "none"
    /\ \E i \in 1..Len(call.result.value.quality_issues) :
          call.result.value.quality_issues[i] = issue

\* C15: with impact_measures present, the numbers issue is reported exactly
\* when the iteration is 2 or more and the value contains no digit.
C15_NumericCheck ==
    (Progressed /\ Present(call.fields["impact_measures"]))
        => ( Reported(NumbersIssue)
               <=> ( /\ call.iteration >= 2
                     /\ ~ContainsDigit(call.fields["impact_measures"]) ) )

\* C16: at iteration 1 or later, on a field set with a sized field absent,
\* the validator returns, missing_fields names the absent required fields,
\* and no quality issue names an absent field.
C16_AbsentSkipped ==
    ( /\ Progressed /\ call.iteration >= 1
      /\ \E f \in Sized : call.fields[f] = None )
        => /\ call.result.raised = "none"
           /\ FieldNames(call.result.value.missing_fields)
                 = AbsentRequired(call.fields)
           /\ \A i \in 1..Len(call.result.value.quality_issues) :
                 Present(call.fields[call.result.value.quality_issues[i].field])

(***************************************************************************)
(* Spec: the three handlers of api_run.py over the session store.          *)
(***************************************************************************)
\* The session ids requests name, and those submissions are started under:
\* "s2" is never started, so a request naming it finds no session.
Sids == {"s1", "s2"}

Started == {"s1"}

\* The uploads in flight at a time.
Uploads == {"r1"}

Audios == {"a1"}

\* Clarification rounds recorded in one session's history.
MaxRounds == 2

Text1 == [t |-> "str", s |-> <<"t", "1">>]

\* The form field  text : absent (None) or given.
TextInputs == {None, Text1}

\* The texts of the clarification rounds.
Texts == {Text1}

\* str(text)
PyStr(v) == [t |-> "str", s |-> v.s]

\* bool(text)
Truthy(v) == v # None /\ Len(v.s) > 0

\* output_json["transcript"] for a file holding the bytes  content
Spoken(content) == [t |-> "str", s |-> <<"spoken", content>>]

\* transcript(): status 200, another status, or an exception.
Transcriptions == {"ok", "status", "raise"}

Short == Txt(2, "a")

Long(c) == Txt(Threshold, c)

\* Answers of the language model in the handlers' runs.
Carpool == [idea_title |-> Short, solution_details |-> Long("a"), budget |-> Long("a")]

Rest == Pattern(Required \ {"idea_title", "solution_details"}, Long("b"), None)

Typed == [target_audience |-> ListV]

HandlerOutputs ==
    { [fence |-> "plain", doc |-> "object", obj |-> Carpool],
      [fence |-> "none", doc |-> "object", obj |-> Rest],
      [fence |-> "none", doc |-> "object", obj |-> Typed],
      [fence |-> "none", doc |-> "array", obj |-> EmptyDict] }

LMOutcomes == {LMFailure} \cup {LMAnswer(o) : o \in HandlerOutputs}

\* A store whose keys all refer to one record: d[k] = v shows under each.
PutShared(d, k, v) == [x \in DOMAIN d \cup {k} |-> v]

\* d[k] = v  and  del d[k]  on a dict.
Put(d, k, v) == [x \in DOMAIN d \cup {k} |-> IF x = k THEN v ELSE d[x]]

Remove(d, k) == [x \in DOMAIN d \ {k} |-> d[x]]

Init == InitStore /\ call = NoCall

\* The APIResponse a handler returns (status, form_data, missing_fields),
\* with the extraction and the verdict it was computed from.
Reply(op, sid, status, extracted, verdict, form_data, missing_fields) ==
    [op |-> op, sid |-> sid, code |-> 200, error |-> "none", status |-> status,
     extracted |-> extracted, verdict |-> verdict, form_data |-> form_data,
     missing_fields |-> missing_fields]

\* raise HTTPException(status_code=code, ...): the handler returns nothing.
Failure(op, sid, code, error) ==
    [op |-> op, sid |-> sid, code |-> code, error |-> error, status |-> "none",
     extracted |-> EmptyDict, verdict |-> NoVerdict, form_data |-> EmptyDict,
     missing_fields |-> <<>>]

(***************************************************************************)
(* Temporary audio files.                                                  *)
(***************************************************************************)
\* open(audio_path, "wb") by request r: creates the file or truncates it.
Opened(fs, sid, r) ==
    Put(fs, sid, [content |-> "",
                  writers |-> (IF sid \in DOMAIN fs THEN fs[sid].writers ELSE {}) \cup {r}])

\* buffer.write(data) and close by request r.  When the path was removed
\* since r opened it, r writes to the unlinked file and the path is as it is.
Written(fs, sid, r, a) ==
    IF sid \in DOMAIN fs /\ r \in fs[sid].writers
    THEN Put(fs, sid, [content |-> a, writers |-> fs[sid].writers \ {r}])
    ELSE fs

(***************************************************************************)
(* start_submission.                                                       *)
(***************************************************************************)
\* The suspended clarifications of sid keep the dict that left the store.
Detach(rs, sid) ==
    LET G == {r \in Requests : /\ rs[r].pc = "reading"
                               /\ rs[r].op = "provide_clarification"
                               /\ rs[r].sid = sid
                               /\ ~rs[r].detached} IN
    [r \in Requests |->
        IF r \in G
        THEN [rs[r] EXCEPT !.detached = TRUE, !.session = sessions[sid], !.group = G]
        ELSE rs[r]]

\* Lines 87-100: store the session, then build the response.
StartStored(sid, result, rs) ==
    LET form == FormFieldResponse(result.form_data) IN
    /\ sessions' = Put(sessions, sid,
                       [current_fields |-> result.form_data, history |-> <<>>])
    /\ reqs' = Detach(rs, sid)
    /\ resp' = IF form.raised # "none"
               THEN Failure("start_submission", sid, 500, form.raised)
               ELSE Reply("start_submission", sid, result.status, result.form_data,
                          result.validation, form.value,
                          FieldNames(result.validation.missing_fields))

\* Neither audio nor text: HTTPException(400), caught and answered as 500.
StartNoInput(sid, text) ==
    /\ ~Truthy(text)
    /\ resp' = Failure("start_submission", sid, 500, "HTTPException 400")
    /\ UNCHANGED <<sessions, files, reqs, call>>

\* The text path, lines 82-100: no suspension point.
StartText(sid, text, lm) ==
    /\ Truthy(text)
    /\ LET result == run_interactive_loop(lm) IN
       IF result.raised # "none"
       THEN /\ resp' = Failure("start_submission", sid, 500, result.raised)
            /\ UNCHANGED <<sessions, reqs>>
       ELSE StartStored(sid, result, reqs)
    /\ UNCHANGED <<files, call>>

\* The audio path up to  await audio.read()  (lines 68-73).
StartAudioBegin(r, sid, a) ==
    /\ reqs[r].pc = "idle"
    /\ files' = Opened(files, sid, r)
    /\ reqs' = [reqs EXCEPT ![r] =
                  [IdleRequest EXCEPT !.pc = "reading", !.op = "start_submission",
                                      !.sid = sid, !.audio = a]]
    /\ UNCHANGED <<sessions, resp, call>>

\* The audio path from the write to the response (lines 73-100).
StartAudioEnd(r, tr, lm) ==
    /\ reqs[r].pc = "reading" /\ reqs[r].op = "start_submission"
    /\ LET sid == reqs[r].sid
           written == Written(files, sid, r, reqs[r].audio)
           rs == [reqs EXCEPT ![r] = IdleRequest]
           result == run_interactive_loop(lm)
           error == IF sid \notin DOMAIN written THEN "FileNotFoundError"
                    ELSE IF tr = "raise" THEN "TranscriptError"
                    ELSE IF tr = "status" THEN "UnboundLocalError"
                    ELSE result.raised IN
       IF error # "none"
       THEN /\ resp' = Failure("start_submission", sid, 500, error)
            /\ files' = written
            /\ reqs' = rs
            /\ UNCHANGED sessions
       ELSE /\ files' = Remove(written, sid)
            /\ StartStored(sid, result, rs)
    /\ UNCHANGED call

(***************************************************************************)
(* provide_clarification.                                                  *)
(***************************************************************************)
\* Lines 113-114: HTTPException(404), caught by the handler's own
\* except Exception  and answered as 500.
ClarifyUnknown(sid) ==
    /\ sid \notin DOMAIN sessions
    /\ resp' = Failure("provide_clarification", sid, 500, "HTTPException 404")
    /\ UNCHANGED <<sessions, files, reqs, call>>

\* Lines 135-159 on the dict  session : merge, validate, update, respond.
\* group: the suspended requests that hold the same detached dict.
ClarifyRound(sid, text, lm, session, detached, group, rs) ==
    LET e == Extract(lm)
        updated_fields == update_fields(session.current_fields, e.value)
        validation == validate_fields(updated_fields)
        updated == [current_fields |-> updated_fields,
                    history |-> Append(session.history,
                                       [response |-> PyStr(text),
                                        validation |-> validation])]
        form == FormFieldResponse(updated_fields) IN
    IF e.raised # "none"
    THEN /\ resp' = Failure("provide_clarification", sid, 500, e.raised)
         /\ reqs' = rs
         /\ UNCHANGED sessions
    ELSE /\ IF detached
            THEN /\ UNCHANGED sessions
                 /\ reqs' = [r \in Requests |->
                               IF r \in group /\ rs[r].pc = "reading"
                               THEN [rs[r] EXCEPT !.session = updated]
                               ELSE rs[r]]
            ELSE /\ sessions' = Put(sessions, sid, updated)
                 /\ reqs' = rs
         /\ resp' = IF form.raised # "none"
                    THEN Failure("provide_clarification", sid, 500, form.raised)
                    ELSE Reply("provide_clarification", sid,
                               IF validation.missing_fields = <<>>
                               THEN "complete" ELSE "needs_clarification",
                               e.value, validation, form.value,
                               FieldNames(validation.missing_fields))

\* The text path: no suspension point.  text may be absent: str(None).
ClarifyText(sid, text, lm) ==
    /\ sid \in DOMAIN sessions
    /\ Len(sessions[sid].history) < MaxRounds
    /\ ClarifyRound(sid, text, lm, sessions[sid], FALSE, {}, reqs)
    /\ UNCHANGED <<files, call>>

\* The audio path up to  await audio.read()  (lines 113-124).
ClarifyAudioBegin(r, sid, a) ==
    /\ reqs[r].pc = "idle"
    /\ sid \in DOMAIN sessions
    /\ Len(sessions[sid].history) < MaxRounds
    /\ files' = Opened(files, sid, r)
    /\ reqs' = [reqs EXCEPT ![r] =
                  [IdleRequest EXCEPT !.pc = "reading", !.op = "provide_clarification",
                                      !.sid = sid, !.audio = a]]
    /\ UNCHANGED <<sessions, resp, call>>

\* The audio path from the write to the response (lines 124-159).
ClarifyAudioEnd(r, tr, lm) ==
    /\ reqs[r].pc = "reading" /\ reqs[r].op = "provide_clarification"
    /\ LET sid == reqs[r].sid
           session == IF reqs[r].detached THEN reqs[r].session ELSE sessions[sid]
           written == Written(files, sid, r, reqs[r].audio)
           rs == [reqs EXCEPT ![r] = IdleRequest]
           error == IF sid \notin DOMAIN written THEN "FileNotFoundError"
                    ELSE IF tr = "raise" THEN "TranscriptError"
                    ELSE IF tr = "status" THEN "UnboundLocalError"
                    ELSE "none" IN
       /\ Len(session.history) < MaxRounds
       /\ IF error # "none"
          THEN /\ resp' = Failure("provide_clarification", sid, 500, error)
               /\ files' = written
               /\ reqs' = rs
               /\ UNCHANGED sessions
          ELSE /\ files' = Remove(written, sid)
               /\ ClarifyRound(sid, Spoken(written[sid].content), lm, session,
                               reqs[r].detached, reqs[r].group \ {r}, rs)
    /\ UNCHANGED call

(***************************************************************************)
(* get_status.                                                             *)
(***************************************************************************)
GetStatus(sid) ==
    /\ IF sid \notin DOMAIN sessions
       THEN resp' = Failure("get_status", sid, 404, "HTTPException 404")
       ELSE LET fields == sessions[sid].current_fields
                validation == validate_fields(fields)
                form == FormFieldResponse(fields) IN
            resp' = IF form.raised # "none"
                    THEN Failure("get_status", sid, 500, form.raised)
                    ELSE Reply("get_status", sid,
                               IF validation.missing_fields = <<>>
                               THEN "complete" ELSE "needs_clarification",
                               EmptyDict, validation, form.value, <<>>)
    /\ UNCHANGED <<sessions, files, reqs, call>>

Next ==
    \/ \E sid \in Started, text \in TextInputs : StartNoInput(sid, text)
    \/ \E sid \in Started, text \in TextInputs, lm \in LMOutcomes : StartText(sid, text, lm)
    \/ \E r \in Uploads, sid \in Started, a \in Audios : StartAudioBegin(r, sid, a)
    \/ \E r \in Uploads, tr \in Transcriptions, lm \in LMOutcomes : StartAudioEnd(r, tr, lm)
    \/ \E sid \in Sids : ClarifyUnknown(sid)
    \/ \E sid \in Sids, text \in Texts, lm \in LMOutcomes : ClarifyText(sid, text, lm)
    \/ \E r \in Uploads, sid \in Sids, a \in Audios : ClarifyAudioBegin(r, sid, a)
    \/ \E r \in Uploads, tr \in Transcriptions, lm \in LMOutcomes : ClarifyAudioEnd(r, tr, lm)
    \/ \E sid \in Sids : GetStatus(sid)

Spec == Init /\ [][Next]_vars

(***************************************************************************)
(* Properties of the handlers.                                             *)
(***************************************************************************)
Answered(op) == resp.op = op /\ resp.code = 200

\* C6: a handler that answers reports "complete" when the verdict's
\* missing_fields is empty and "needs_clarification" otherwise.
C6_StatusRule ==
    resp.code = 200 =>
        resp.status = IF resp.verdict.missing_fields = <<>>
                      THEN "complete" ELSE "needs_clarification"

\* C7: every stored field set, every dict a suspended request holds, and
\* every extraction a round answered from has exactly the schema's keys.
C7_FieldSetShape ==
    /\ \A sid \in DOMAIN sessions : DOMAIN sessions[sid].current_fields = Fields
    /\ \A r \in Requests :
          reqs[r].detached => DOMAIN reqs[r].session.current_fields = Fields
    /\ (Answered("start_submission") \/ Answered("provide_clarification"))
          => DOMAIN resp.extracted = Fields

\* A clarification merged the answer Carpool, which lacks schema keys and
\* carries an undeclared one, into a stored field set.
C7_Witness ==
    /\ Answered("provide_clarification")
    /\ ExtraKey \in DOMAIN Carpool /\ ~(Fields \subseteq DOMAIN Carpool)
    /\ resp.extracted = [f \in Fields |-> DictGet(Carpool, f)]
    /\ resp.sid \in DOMAIN sessions
    /\ Len(sessions[resp.sid].history) = MaxRounds
    /\ DOMAIN sessions[resp.sid].current_fields = Fields

\* C8: a step that changes the session store is the step of a handler that
\* answers 200; a round that ends in an error leaves the store as it was.
C8_RoundAtomicity == [][sessions' # sessions => resp'.code = 200]_vars

\* The extraction ext supplies exactly the required fields missing in cur.
Supplies(cur, ext) ==
    \A f \in Fields :
        IF f \in Required /\ DictGet(cur, f) = None
        THEN Present(DictGet(ext, f))
        ELSE DictGet(ext, f) = None

\* C10: a clarification round whose extraction supplies exactly the missing
\* required fields of the stored field set answers with no missing field.
C10_ClarificationCompletes ==
    [][\A sid \in DOMAIN sessions :
          ( /\ resp'.op = "provide_clarification" /\ resp'.code = 200
            /\ resp'.sid = sid
            /\ Len(sessions'[sid].history) = Len(sessions[sid].history) + 1
            /\ Supplies(sessions[sid].current_fields, resp'.extracted) )
          => ( /\ resp'.verdict.missing_fields = <<>>
               /\ resp'.status = "complete" )]_vars

\* s is an initial segment of t.
IsPrefix(s, t) == Len(s) <= Len(t) /\ SubSeq(t, 1, Len(s)) = s

\* C11: in every step, each stored session's history is a prefix of its
\* history after the step and grows by at most one entry, and a
\* clarification that answers 200 has appended its entry to the stored
\* history: the last entry holds the verdict it answered with.
C11_HistoryAppendOnly ==
    [][ /\ \A sid \in DOMAIN sessions :
              /\ sid \in DOMAIN sessions'
              /\ IsPrefix(sessions[sid].history, sessions'[sid].history)
              /\ Len(sessions'[sid].history) <= Len(sessions[sid].history) + 1
        /\ (resp' # resp /\ resp'.op = "provide_clarification" /\ resp'.code = 200)
              => /\ resp'.sid \in DOMAIN sessions'
                 /\ sessions'[resp'.sid].history # <<>>
                 /\ sessions'[resp'.sid].history[Len(sessions'[resp'.sid].history)].validation
                        = resp'.verdict ]_vars

\* C17: a clarification round (the stored history grows by one entry)
\* leaves every field that was present in the stored field set present.
C17_PresentStaysPresent ==
    [][\A sid \in DOMAIN sessions :
          ( /\ sid \in DOMAIN sessions'
            /\ Len(sessions'[sid].history) = Len(sessions[sid].history) + 1 )
          => \A f \in Fields :
                Present(DictGet(sessions[sid].current_fields, f))
                    => Present(DictGet(sessions'[sid].current_fields, f))]_vars

\* The verdict carries no quality issue and no suggestion.
BaseVerdict(v) == v.quality_issues = <<>> /\ v.suggestions = <<>>

\* The required fields absent in a field set.
Lacking(fields) == {f \in Required : DictGet(fields, f) = None}

\* C18: every verdict recorded in a history, stored or held by a suspended
\* request, and every verdict a clarification answers with, has no quality
\* issue and no suggestion; the clarification's status is "complete"
\* exactly when its verdict names no missing required field.
C18_BaseStrictness ==
    /\ \A sid \in DOMAIN sessions :
          \A i \in 1..Len(sessions[sid].history) :
              BaseVerdict(sessions[sid].history[i].validation)
    /\ \A r \in Requests :
          \A i \in 1..Len(reqs[r].session.history) :
              BaseVerdict(reqs[r].session.history[i].validation)
    /\ Answered("provide_clarification")
          => /\ BaseVerdict(resp.verdict)
             /\ resp.status = "complete" <=> resp.verdict.missing_fields = <<>>
             /\ resp.status \in {"complete", "needs_clarification"}

\* A second clarification round answered "complete" while stored values are
\* shorter than their declared min_length and impact_measures has no digit.
C18_Witness ==
    /\ Answered("provide_clarification")
    /\ resp.status = "complete"
    /\ resp.sid \in DOMAIN sessions
    /\ Len(sessions[resp.sid].history) = MaxRounds
    /\ Lacking(sessions[resp.sid].current_fields) = {}
    /\ StrLen(sessions[resp.sid].current_fields["solution_details"])
          < FORM_SCHEMA["solution_details"].min_length
    /\ sessions[resp.sid].current_fields["impact_measures"] = Long("b")
    /\ BaseVerdict(sessions[resp.sid].history[MaxRounds].validation)

\* C19: a clarification naming a session id the store does not hold is
\* answered 404.
C19_UnknownSession404 ==
    (resp.op = "provide_clarification" /\ resp.sid \notin DOMAIN sessions)
        => resp.code = 404

\* C20: a value of the parsed object that is neither a string nor null is
\* absent in the field set forward returns.
C20_TypeInvalidCoerced ==
    (Extracted /\ call.result.raised = "none")
        => \A f \in Fields :
              call.result.value[f] = None \/ IsStr(call.result.value[f])

(***************************************************************************)
(* SpecRace: one session, and two audio clarifications of it in flight at  *)
(* a time, each suspended at  await audio.read()  with the temp file of    *)
(* the session open.                                                       *)
(***************************************************************************)
RaceSid == "s1"

RaceAudios == {"a1", "a2"}

RaceOutcomes ==
    { LMAnswer([fence |-> "plain", doc |-> "object", obj |-> Carpool]),
      LMAnswer([fence |-> "none", doc |-> "object", obj |-> Rest]) }

NextRace ==
    \/ \E lm \in RaceOutcomes :
          RaceSid \notin DOMAIN sessions /\ StartText(RaceSid, Text1, lm)
    \/ \E r \in Requests, a \in RaceAudios : ClarifyAudioBegin(r, RaceSid, a)
    \/ \E r \in Requests, tr \in Transcriptions, lm \in RaceOutcomes :
          ClarifyAudioEnd(r, tr, lm)

SpecRace == Init /\ [][NextRace]_vars

\* C12: every audio clarification that runs to its end while another one of
\* the same session is or was in flight behaves as if it ran alone: it is
\* not lost because its temp file is gone, and when it answers it has
\* appended to the stored history one entry holding the transcript of its
\* own upload and the verdict it answered with.
C12_RoundsSerialized ==
    [][\A r \in Requests :
          ( /\ reqs[r].pc = "reading" /\ reqs[r].op = "provide_clarification"
            /\ reqs'[r].pc = "idle" )
          => /\ resp'.error # "FileNotFoundError"
             /\ resp'.code = 200
                   => sessions'[reqs[r].sid].history
                         = Append(sessions[reqs[r].sid].history,
                                  [response |-> Spoken(reqs[r].audio),
                                   validation |-> resp'.verdict])]_vars

(***************************************************************************)
(* SpecSessions: two sessions, started by text and clarified by audio, the *)
(* rounds of one session interleaving with those of the other.             *)
(***************************************************************************)
SessionOutcomes ==
    { LMAnswer([fence |-> "plain", doc |-> "object", obj |-> Carpool]),
      LMAnswer([fence |-> "none", doc |-> "object", obj |-> Typed]) }

\* The request that uploads the audio of a session: one upload per session
\* at a time, those of the two sessions in flight together.
Uploader(sid) == IF sid = "s1" THEN "r1" ELSE "r2"

NextSessions ==
    \/ \E sid \in Sids, lm \in SessionOutcomes : StartText(sid, Text1, lm)
    \/ \E sid \in Sids, a \in Audios : ClarifyAudioBegin(Uploader(sid), sid, a)
    \/ \E r \in Requests, tr \in Transcriptions, lm \in SessionOutcomes :
          ClarifyAudioEnd(r, tr, lm)

SpecSessions == Init /\ [][NextSessions]_vars

\* C13: a step changes the stored record of no session other than the one
\* the handler that finished in the step was called with.
C13_SessionIsolation ==
    [][\A b \in DOMAIN sessions :
          b # resp'.sid => (b \in DOMAIN sessions' /\ sessions'[b] = sessions[b])]_vars

\* Rounds of "s1" up to the bound have been answered while "s2", stored
\* with other fields and no history, has an upload suspended.
C13_Witness ==
    /\ {"s1", "s2"} \subseteq DOMAIN sessions
    /\ resp.op = "provide_clarification" /\ resp.sid = "s1" /\ resp.code = 200
    /\ Len(sessions["s1"].history) = MaxRounds
    /\ sessions["s2"].history = <<>>
    /\ sessions["s2"].current_fields # sessions["s1"].current_fields
    /\ reqs["r2"].pc = "reading" /\ reqs["r2"].sid = "s2"

====
